---- MODULE Spec2Model ----
(***************************************************************************)
(* The request gatekeeper and proxy of the text-to-image gateway: the      *)
(* POST /api/generate pipeline of its three revisions,                     *)
(*   v2.0.0  src/index.js lines 1-301                                      *)
(*   v2.3.0  src/unnamed/part_000                                          *)
(*   v2.5.0  src/index.js lines 303-747                                    *)
(* One call is followed from its arrival, through the plan-detection       *)
(* middleware and the validation of the handler, to the single outbound    *)
(* axios.post and the response built from its outcome.                     *)
(*                                                                         *)
(* JavaScript values are tagged records.  Strings are sequences of         *)
(* one-character strings, so that parseInt, ToNumber and toLowerCase are   *)
(* computed character by character.  Numbers are held in tenths (5125 is   *)
(* 512.5): every number of the model has at most one fractional digit.     *)
(***************************************************************************)
EXTENDS Integers, Sequences, FiniteSets, TLC

VARIABLES
    rev,        \* the revision of the gateway that is running
    pc,         \* where the call is: idle, detect, handler, awaiting, done
    req,        \* the inbound request: headers and the parsed JSON body
    userPlan,   \* req.userPlan, set by detectUserPlan
    isPaidUser, \* req.isPaidUser, set by detectUserPlan (v2.3.0)
    outbound,   \* the outbound POSTs issued to the upstream API for this call
    payload,    \* payload.parameters of the outbound POST
    upstream,   \* the outcome of the outbound POST
    response,   \* the HTTP response sent to the caller
    sent,       \* how many responses were sent for this call
    adminKey,   \* process.env.ADMIN_KEY
    hits,       \* the store of the rate limiter: the hits of each address
    handled,    \* how many route handlers ran for this call
    usage,      \* the usage counter: the count of each caller id of the day
    calls       \* the concurrent calls that go through the usage counter

\* the state of the process outside one call of POST /api/generate
server == <<adminKey, hits, handled, usage, calls>>

vars == <<rev, pc, req, userPlan, isPaidUser, outbound, payload, upstream,
          response, sent, adminKey, hits, handled, usage, calls>>

(***************************************************************************)
(* JavaScript values                                                       *)
(***************************************************************************)
Undefined == [t |-> "undefined"]
Null == [t |-> "null"]
Bool(b) == [t |-> "boolean", b |-> b]
\* a finite number, given in tenths
Num(tenths) == [t |-> "number", nan |-> FALSE, v |-> tenths]
\* a whole number
Whole(n) == Num(n * 10)
NaN == [t |-> "number", nan |-> TRUE, v |-> 0]
Str(s) == [t |-> "string", s |-> s]
\* a string the program reads no character of (a prompt, a name, a message):
\* held by its text
Text(lit) == [t |-> "text", lit |-> lit]
\* a plain object parsed from JSON ({}), Object.prototype, and the function Object
Obj(tag) == [t |-> "object", tag |-> tag]

HexChars == <<"0", "1", "2", "3", "4", "5", "6", "7", "8", "9",
              "a", "b", "c", "d", "e", "f">>
UpperChars == <<"A", "B", "C", "D", "E", "F", "G", "H", "I", "J", "K", "L", "M",
                "N", "O", "P", "Q", "R", "S", "T", "U", "V", "W", "X", "Y", "Z">>
LowerChars == <<"a", "b", "c", "d", "e", "f", "g", "h", "i", "j", "k", "l", "m",
                "n", "o", "p", "q", "r", "s", "t", "u", "v", "w", "x", "y", "z">>

\* String.prototype.toLowerCase, one character
ToLowerChar(c) ==
    IF \E i \in 1..Len(UpperChars) : UpperChars[i] = c
    THEN LowerChars[CHOOSE i \in 1..Len(UpperChars) : UpperChars[i] = c]
    ELSE c

\* String.prototype.toLowerCase
toLowerCase(s) == [i \in 1..Len(s) |-> ToLowerChar(s[i])]

\* whether c is a digit of radix R, and its value
IsDigit(c, R) ==
    \E i \in 1..R : HexChars[i] = ToLowerChar(c)
DigitVal(c) ==
    (CHOOSE i \in 1..Len(HexChars) : HexChars[i] = ToLowerChar(c)) - 1

\* the length of the longest prefix of s made of digits of radix R
PrefixLen(s, R) ==
    IF \E i \in 1..Len(s) : ~IsDigit(s[i], R)
    THEN (CHOOSE i \in 1..Len(s) :
              /\ ~IsDigit(s[i], R)
              /\ \A j \in 1..(i - 1) : IsDigit(s[j], R)) - 1
    ELSE Len(s)

RECURSIVE DigitsValue(_, _)
\* the value of a sequence of digits of radix R
DigitsValue(s, R) ==
    IF Len(s) = 0 THEN 0
    ELSE DigitsValue(SubSeq(s, 1, Len(s) - 1), R) * R + DigitVal(s[Len(s)])

RECURSIVE Pow10(_)
Pow10(n) == IF n = 0 THEN 1 ELSE 10 * Pow10(n - 1)

Drop(s, n) == SubSeq(s, n + 1, Len(s))
StartsWith(s, p) == Len(s) >= Len(p) /\ SubSeq(s, 1, Len(p)) = p

\* StrWhiteSpaceChar: the space is the only one in the alphabet of the model
IsSpace(c) == c = " "
LeadingSpaces(s) ==
    IF \E i \in 1..Len(s) : ~IsSpace(s[i])
    THEN (CHOOSE i \in 1..Len(s) :
              ~IsSpace(s[i]) /\ \A j \in 1..(i - 1) : IsSpace(s[j])) - 1
    ELSE Len(s)
TrimStart(s) == Drop(s, LeadingSpaces(s))
Reverse(s) == [i \in 1..Len(s) |-> s[Len(s) + 1 - i]]
Trim(s) == Reverse(TrimStart(Reverse(TrimStart(s))))

RECURSIVE NatToStr(_)
\* the decimal digits of a natural number
NatToStr(n) ==
    IF n < 10 THEN <<HexChars[n + 1]>>
    ELSE NatToStr(n \div 10) \o <<HexChars[(n % 10) + 1]>>

Abs(n) == IF n < 0 THEN -n ELSE n

\* Number::toString of a finite number held in tenths
NumToStr(v) ==
    (IF v < 0 THEN <<"-">> ELSE <<>>)
        \o NatToStr(Abs(v) \div 10)
        \o (IF Abs(v) % 10 = 0 THEN <<>> ELSE <<".", HexChars[(Abs(v) % 10) + 1]>>)

\* ToString
ToStr(x) ==
    CASE x.t = "undefined" -> <<"u", "n", "d", "e", "f", "i", "n", "e", "d">>
      [] x.t = "null" -> <<"n", "u", "l", "l">>
      [] x.t = "boolean" ->
            IF x.b THEN <<"t", "r", "u", "e">> ELSE <<"f", "a", "l", "s", "e">>
      [] x.t = "number" -> IF x.nan THEN <<"N", "a", "N">> ELSE NumToStr(x.v)
      [] x.t = "string" -> x.s
      [] x.t = "object" ->
            IF x.tag = "function Object"
            THEN <<"f", "u", "n", "c", "t", "i", "o", "n", " ", "O", "b", "j", "e",
                   "c", "t", "(", ")", " ", "{", " ", "[", "n", "a", "t", "i", "v",
                   "e", " ", "c", "o", "d", "e", "]", " ", "}">>
            ELSE <<"[", "o", "b", "j", "e", "c", "t", " ", "O", "b", "j", "e", "c",
                   "t", "]">>

\* -x of a number
Negate(x) == IF x.nan THEN NaN ELSE Num(-x.v)

\* the value of the first n characters of S, digits of radix R; NaN if none
ParseDigitsN(S, R, n) ==
    IF n = 0 THEN NaN ELSE Whole(DigitsValue(SubSeq(S, 1, n), R))
ParseDigits(S, R) == ParseDigitsN(S, R, PrefixLen(S, R))

\* parseInt after the sign: a 0x or 0X prefix makes the radix 16
ParseIntPrefixed(S) ==
    IF StartsWith(S, <<"0", "x">>) \/ StartsWith(S, <<"0", "X">>)
    THEN ParseDigits(Drop(S, 2), 16)
    ELSE ParseDigits(S, 10)

\* parseInt after the leading white space
ParseIntSigned(S) ==
    IF Len(S) > 0 /\ S[1] = "-" THEN Negate(ParseIntPrefixed(Drop(S, 1)))
    ELSE IF Len(S) > 0 /\ S[1] = "+" THEN ParseIntPrefixed(Drop(S, 1))
    ELSE ParseIntPrefixed(S)

\* parseInt(x) with no radix argument: the longest prefix of ToString(x) that
\* reads as an integer
parseInt(x) == ParseIntSigned(TrimStart(ToStr(x)))

\* StrDecimalLiteral, the exponent digits e: they must be all that is left
DecExp(mant, eneg, e) ==
    IF Len(e) = 0 \/ PrefixLen(e, 10) # Len(e) THEN NaN
    ELSE IF eneg THEN Num(mant \div Pow10(DigitsValue(e, 10)))
    ELSE Num(mant * Pow10(DigitsValue(e, 10)))

\* the sign of the exponent
DecExpSign(mant, d) ==
    IF Len(d) > 0 /\ d[1] = "-" THEN DecExp(mant, TRUE, Drop(d, 1))
    ELSE IF Len(d) > 0 /\ d[1] = "+" THEN DecExp(mant, FALSE, Drop(d, 1))
    ELSE DecExp(mant, FALSE, d)

\* after the mantissa (in tenths, of nd digits): the end, or an exponent
DecMant(mant, nd, c) ==
    IF nd = 0 THEN NaN
    ELSE IF Len(c) = 0 THEN Num(mant)
    ELSE IF c[1] \in {"e", "E"} THEN DecExpSign(mant, Drop(c, 1))
    ELSE NaN

\* the fraction digits: the first one is kept, the model holds tenths
DecFracN(ip, n1, b, n2) ==
    DecMant(ip * 10 + (IF n2 > 0 THEN DigitVal(b[1]) ELSE 0), n1 + n2, Drop(b, n2))
DecFrac(ip, n1, b) == DecFracN(ip, n1, b, PrefixLen(b, 10))

\* after the integer part ip of n1 digits: a dot and a fraction, or none
DecAfterInt(ip, n1, a) ==
    IF Len(a) > 0 /\ a[1] = "." THEN DecFrac(ip, n1, Drop(a, 1))
    ELSE DecMant(ip * 10, n1, a)
DecInt(s, n1) == DecAfterInt(DigitsValue(SubSeq(s, 1, n1), 10), n1, Drop(s, n1))

\* StringToNumber of a StrDecimalLiteral without its sign; "Infinity" is outside
\* the alphabet of the model
DecimalLiteral(s) == DecInt(s, PrefixLen(s, 10))

\* a 0x, 0o or 0b literal: digits of the radix after the prefix, and nothing else
RadixDigits(ds, R) ==
    IF Len(ds) > 0 /\ PrefixLen(ds, R) = Len(ds) THEN Whole(DigitsValue(ds, R))
    ELSE NaN
RadixLiteral(s, R) == RadixDigits(Drop(s, 2), R)

\* the first two characters, the second in lower case
Prefix2(s) == IF Len(s) >= 2 THEN <<s[1], ToLowerChar(s[2])>> ELSE <<>>

\* StringToNumber of a string without the white space around it
StringToNumberTrimmed(s) ==
    IF Len(s) = 0 THEN Whole(0)
    ELSE IF Prefix2(s) = <<"0", "x">> THEN RadixLiteral(s, 16)
    ELSE IF Prefix2(s) = <<"0", "o">> THEN RadixLiteral(s, 8)
    ELSE IF Prefix2(s) = <<"0", "b">> THEN RadixLiteral(s, 2)
    ELSE IF s[1] = "-" THEN Negate(DecimalLiteral(Drop(s, 1)))
    ELSE IF s[1] = "+" THEN DecimalLiteral(Drop(s, 1))
    ELSE DecimalLiteral(s)

\* StringToNumber
StringToNumber(str) == StringToNumberTrimmed(Trim(str))

\* ToNumber
ToNumber(x) ==
    CASE x.t = "undefined" -> NaN
      [] x.t = "null" -> Whole(0)
      [] x.t = "boolean" -> IF x.b THEN Whole(1) ELSE Whole(0)
      [] x.t = "number" -> x
      [] x.t = "string" -> StringToNumber(x.s)
      [] x.t = "object" -> StringToNumber(ToStr(x))

\* x < y and x > y of two numbers: false when either is NaN
NumLt(x, y) == ~x.nan /\ ~y.nan /\ x.v < y.v
NumGt(x, y) == ~x.nan /\ ~y.nan /\ x.v > y.v

\* a < b and a > b of two values one of which is a number: both are converted
\* with ToNumber
Lt(a, b) == NumLt(ToNumber(a), ToNumber(b))
Gt(a, b) == NumGt(ToNumber(a), ToNumber(b))

\* ToBoolean
Truthy(x) ==
    CASE x.t = "undefined" -> FALSE
      [] x.t = "null" -> FALSE
      [] x.t = "boolean" -> x.b
      [] x.t = "number" -> ~x.nan /\ x.v # 0
      [] x.t = "string" -> Len(x.s) > 0
      [] x.t = "text" -> x.lit # ""
      [] x.t = "object" -> TRUE

\* typeof
TypeOf(x) ==
    CASE x.t = "null" -> "object"
      [] x.t = "object" -> IF x.tag = "function Object" THEN "function" ELSE "object"
      [] x.t = "text" -> "string"
      [] OTHER -> x.t

\* a destructuring default (const { width = 512 } = req.body): only undefined
\* takes the default
Default(x, d) == IF x.t = "undefined" THEN d ELSE x

(***************************************************************************)
(* The plan tables and the plan-detection middleware                       *)
(***************************************************************************)
Revisions == {"v2.0.0", "v2.3.0", "v2.5.0"}
\* the revisions that resolve a plan (v2.0.0 has no plan table)
PlanRevisions == {"v2.3.0", "v2.5.0"}

basic == <<"b", "a", "s", "i", "c">>
pro == <<"p", "r", "o">>
ultra == <<"u", "l", "t", "r", "a">>
mega == <<"m", "e", "g", "a">>
PlanKeys == {basic, pro, ultra, mega}

\* v2.3.0: PLAN_RESOLUTIONS
PLAN_RESOLUTIONS ==
    (basic :> Whole(512)) @@ (pro :> Whole(768)) @@ (ultra :> Whole(1024))
        @@ (mega :> Whole(1024))

PlanRecord(max, name, price) ==
    [t |-> "object", tag |-> "plan", maxResolution |-> Whole(max),
     name |-> Text(name), price |-> Whole(price)]

\* v2.5.0: PLAN_CONFIG
PLAN_CONFIG ==
    (basic :> PlanRecord(512, "Basic", 0)) @@ (pro :> PlanRecord(768, "Pro", 9))
        @@ (ultra :> PlanRecord(1024, "Ultra", 29))
        @@ (mega :> PlanRecord(1024, "Mega", 89))

\* The properties an object literal inherits from Object.prototype.  The other
\* members of Object.prototype (hasOwnProperty, isPrototypeOf, ...) are functions
\* too and, like toString and valueOf, hold an upper-case letter.
InheritedProps ==
    (<<"c", "o", "n", "s", "t", "r", "u", "c", "t", "o", "r">> :> Obj("function Object"))
        @@ (<<"_", "_", "p", "r", "o", "t", "o", "_", "_">> :> Obj("Object.prototype"))
        @@ (<<"t", "o", "S", "t", "r", "i", "n", "g">> :> Obj("function"))
        @@ (<<"v", "a", "l", "u", "e", "O", "f">> :> Obj("function"))

\* table[key] of an object literal: an own property, else an inherited one,
\* else undefined
GetProp(table, key) ==
    IF key \in DOMAIN table THEN table[key]
    ELSE IF key \in DOMAIN InheritedProps THEN InheritedProps[key]
    ELSE Undefined

\* value.field of what a plan table lookup returned
Field(value, field) ==
    IF field \in DOMAIN value THEN value[field]
    ELSE IF value.t = "object" /\ value.tag = "function Object" /\ field = "name"
    THEN Text("Object")
    ELSE Undefined

\* the table a revision resolves plans against
PlanTable(r) == IF r = "v2.3.0" THEN PLAN_RESOLUTIONS ELSE PLAN_CONFIG

\* detectUserPlan: req.userPlan and req.isPaidUser from the headers
detectUserPlan(r, headers) ==
    LET rapidApiPlan == headers.plan
        rapidApiSubscription == headers.subscription
    IN  IF r = "v2.3.0"
        THEN IF Truthy(rapidApiPlan)
                  /\ Truthy(GetProp(PLAN_RESOLUTIONS, toLowerCase(rapidApiPlan.s)))
             THEN [userPlan |-> Str(toLowerCase(rapidApiPlan.s)), isPaidUser |-> Bool(TRUE)]
             ELSE IF Truthy(rapidApiSubscription)
             THEN [userPlan |-> Str(pro), isPaidUser |-> Bool(TRUE)]
             ELSE [userPlan |-> Str(basic), isPaidUser |-> Bool(FALSE)]
        ELSE LET planKey == IF Truthy(rapidApiPlan) THEN toLowerCase(rapidApiPlan.s)
                            ELSE basic
             IN  [userPlan |-> IF Truthy(GetProp(PLAN_CONFIG, planKey))
                               THEN Str(planKey) ELSE Str(basic),
                  isPaidUser |-> Undefined]

\* req.userPlanConfig (v2.5.0)
UserPlanConfig(plan) == GetProp(PLAN_CONFIG, plan.s)

\* maxAllowed of the handler
MaxAllowed(r, plan) ==
    IF r = "v2.3.0"
    THEN LET m == GetProp(PLAN_RESOLUTIONS, plan.s)
         IN  IF Truthy(m) THEN m ELSE Whole(512)
    ELSE Field(UserPlanConfig(plan), "maxResolution")

(***************************************************************************)
(* The handler of POST /api/generate: validation                            *)
(***************************************************************************)
MaxPromptLength == 1500
MinDimension == 64
MaxDimension == 1024
DefaultDimension == 512

\* req.body is the object express.json() parsed; an absent field is undefined
Width(body) == Default(body.width, Whole(DefaultDimension))
Height(body) == Default(body.height, Whole(DefaultDimension))
DefaultModel(r) ==
    IF r = "v2.0.0" THEN Text("stabilityai/stable-diffusion-2-1")
    ELSE Text("stabilityai/stable-diffusion-xl-base-1.0")
Model(r, body) == Default(body.model, DefaultModel(r))

\* requestedWidth and requestedHeight: what the dimension checks read.  v2.0.0
\* compares the values as they came; v2.3.0 and v2.5.0 compare parseInt of them.
RequestedWidth(r, body) == IF r = "v2.0.0" THEN Width(body) ELSE parseInt(Width(body))
RequestedHeight(r, body) == IF r = "v2.0.0" THEN Height(body) ELSE parseInt(Height(body))

\* !prompt || typeof prompt !== 'string'
PromptMissing(prompt) == ~Truthy(prompt) \/ TypeOf(prompt) # "string"

\* prompt.length > 1500
PromptTooLong(prompt) == Len(prompt.lit) > MaxPromptLength

\* requestedWidth > maxAllowed || requestedHeight > maxAllowed
OverPlan(w, h, maxAllowed) == Gt(w, maxAllowed) \/ Gt(h, maxAllowed)

\* w < 64 || h < 64 || w > 1024 || h > 1024
OutOfRange(w, h) ==
    \/ Lt(w, Whole(MinDimension))
    \/ Lt(h, Whole(MinDimension))
    \/ Gt(w, Whole(MaxDimension))
    \/ Gt(h, Whole(MaxDimension))

\* Mutant of Checks: the plan limit is enforced before the prompt is looked at
ChecksPlanFirst(r, prompt, w, h, maxAllowed) ==
    IF r \in PlanRevisions /\ OverPlan(w, h, maxAllowed) THEN "plan_limit_exceeded"
    ELSE IF PromptMissing(prompt) THEN "prompt_required"
    ELSE IF PromptTooLong(prompt) THEN "prompt_too_long"
    ELSE IF OutOfRange(w, h) THEN "invalid_dimensions"
    ELSE "ok"

\* The checks of the handler in the order of the code, w and h being
\* requestedWidth and requestedHeight: the code of the first check that returns,
\* or "ok" when the handler goes on to the outbound call.
Checks(r, prompt, w, h, maxAllowed) ==
    IF PromptMissing(prompt) THEN "prompt_required"
    ELSE IF PromptTooLong(prompt) THEN "prompt_too_long"
    ELSE IF r \in PlanRevisions /\ OverPlan(w, h, maxAllowed) THEN "plan_limit_exceeded"
    ELSE IF OutOfRange(w, h) THEN "invalid_dimensions"
    ELSE "ok"

\* The verdict of the handler on a request body for a resolved plan
Verdict(r, body, plan) ==
    Checks(r, body.prompt, RequestedWidth(r, body), RequestedHeight(r, body),
           IF r \in PlanRevisions THEN MaxAllowed(r, plan) ELSE Undefined)

\* Mutant of UpgradeSuggestion: the branches of the conditional are off by one
UpgradeSuggestionSkipsTier(plan) ==
    IF plan = Str(basic) THEN "Upgrade to Ultra ($29) for 1024x1024"
    ELSE "Contact for custom enterprise plans"

\* upgrade_suggestion of the plan_limit_exceeded response (v2.5.0)
UpgradeSuggestion(plan) ==
    IF plan = Str(basic) THEN "Upgrade to Pro ($9) for 768x768"
    ELSE IF plan = Str(pro) THEN "Upgrade to Ultra ($29) for 1024x1024"
    ELSE "Contact for custom enterprise plans"

\* { width: requestedWidth, height: requestedHeight }
Dimensions(r, body) ==
    [width |-> RequestedWidth(r, body), height |-> RequestedHeight(r, body)]

\* `${requestedWidth}x${requestedHeight}` of the plan_limit_exceeded response
Requested(body) ==
    Str(ToStr(parseInt(Width(body))) \o <<"x">> \o ToStr(parseInt(Height(body))))

\* { success: false, error, message }; v2.0.0 sends no success flag with a 400
ErrorBody(r, code, text) ==
    IF r = "v2.0.0" THEN [error |-> code, message |-> Text(text)]
    ELSE [success |-> FALSE, error |-> code, message |-> Text(text)]

\* the body of the 400 response of a failed check; an interpolated message is
\* held by its template, the values it interpolates are the fields beside it
RejectBody(r, code, body, plan) ==
        CASE code = "prompt_required" ->
                ErrorBody(r, code, "Text prompt is required and must be a string")
          [] code = "prompt_too_long" ->
                ErrorBody(r, code, "Prompt exceeds maximum length of 1500 characters")
          [] code = "invalid_dimensions" ->
                ErrorBody(r, code, "Width and height must be between 64 and 1024 pixels")
          [] code = "plan_limit_exceeded" /\ r = "v2.3.0" ->
                [success |-> FALSE, error |-> code,
                 message |-> Text("${userPlan} plan maximum resolution is ${maxAllowed}x${maxAllowed}. Upgrade to a higher plan for ${requestedWidth}x${requestedHeight}."),
                 current_plan |-> plan,
                 max_allowed |-> MaxAllowed(r, plan),
                 requested |-> Requested(body),
                 upgrade_url |-> "https://rapidapi.com/your-username/your-api/pricing"]
          [] code = "plan_limit_exceeded" /\ r = "v2.5.0" ->
                [success |-> FALSE, error |-> code,
                 message |-> Text("${userPlanConfig.name} plan maximum resolution is ${maxAllowed}x${maxAllowed}."),
                 current_plan |-> Field(UserPlanConfig(plan), "name"),
                 max_allowed |-> MaxAllowed(r, plan),
                 requested |-> Requested(body),
                 upgrade_suggestion |-> UpgradeSuggestion(plan)]

\* payload.parameters of the outbound POST, and the model its URL names
Payload(r, body) ==
    [inputs |-> body.prompt,
     width |-> parseInt(Width(body)),
     height |-> parseInt(Height(body)),
     model |-> Model(r, body)]

\* Mutant of OutboundCalls: the POST is issued whatever the checks said
OutboundCallsUnchecked(verdict) == 1

\* the outbound axios.post calls the try block makes for a verdict
OutboundCalls(verdict) == IF verdict = "ok" THEN 1 ELSE 0

(***************************************************************************)
(* The handler of POST /api/generate: the response to the upstream outcome  *)
(***************************************************************************)
\* the alphabet of Buffer.prototype.toString('base64')
Base64Chars ==
    <<"A", "B", "C", "D", "E", "F", "G", "H", "I", "J", "K", "L", "M",
      "N", "O", "P", "Q", "R", "S", "T", "U", "V", "W", "X", "Y", "Z",
      "a", "b", "c", "d", "e", "f", "g", "h", "i", "j", "k", "l", "m",
      "n", "o", "p", "q", "r", "s", "t", "u", "v", "w", "x", "y", "z",
      "0", "1", "2", "3", "4", "5", "6", "7", "8", "9", "+", "/">>

\* the i-th character of the alphabet, i in 0..63
Base64Char(i) == Base64Chars[i + 1]

\* Mutant of toBase64: the bytes after the last whole group of three are dropped
RECURSIVE toBase64WholeGroups(_)
toBase64WholeGroups(bytes) ==
    IF Len(bytes) < 3 THEN <<>>
    ELSE <<Base64Char(bytes[1] \div 4),
           Base64Char((bytes[1] % 4) * 16 + bytes[2] \div 16),
           Base64Char((bytes[2] % 16) * 4 + bytes[3] \div 64),
           Base64Char(bytes[3] % 64)>> \o toBase64WholeGroups(Drop(bytes, 3))

RECURSIVE toBase64(_)
\* Buffer.from(response.data).toString('base64'): three bytes to four characters,
\* the last group padded with "="
toBase64(bytes) ==
    IF Len(bytes) = 0 THEN <<>>
    ELSE IF Len(bytes) = 1
    THEN <<Base64Char(bytes[1] \div 4), Base64Char((bytes[1] % 4) * 16), "=", "=">>
    ELSE IF Len(bytes) = 2
    THEN <<Base64Char(bytes[1] \div 4),
           Base64Char((bytes[1] % 4) * 16 + bytes[2] \div 16),
           Base64Char((bytes[2] % 16) * 4), "=">>
    ELSE <<Base64Char(bytes[1] \div 4),
           Base64Char((bytes[1] % 4) * 16 + bytes[2] \div 16),
           Base64Char((bytes[2] % 16) * 4 + bytes[3] \div 64),
           Base64Char(bytes[3] % 64)>> \o toBase64(Drop(bytes, 3))

\* "data:image/png;base64,"
DataUrlPrefix ==
    <<"d", "a", "t", "a", ":", "i", "m", "a", "g", "e", "/",
      "p", "n", "g", ";", "b", "a", "s", "e", "6", "4", ",">>

\* imageUrl: `data:image/png;base64,${imageBase64}`
ImageUrl(bytes) == Str(DataUrlPrefix \o toBase64(bytes))

\* data of the success envelope (id, timestamp and latency left out); bytes is
\* response.data of the upstream
SuccessBody(r, body, plan, paid, bytes) ==
    LET common == [prompt |-> body.prompt, image |-> ImageUrl(bytes),
                   model |-> Model(r, body),
                   dimensions |-> Dimensions(r, body)]
    IN  [success |-> TRUE,
         data |->
            IF r = "v2.0.0" THEN common
            ELSE IF r = "v2.3.0" THEN
                common @@
                [plan |-> plan,
                 max_resolution_allowed |-> MaxAllowed(r, plan),
                 note |-> IF Truthy(paid)
                          THEN Text("Thank you for your ${userPlan} subscription!")
                          ELSE Text("Using free tier. Upgrade for higher resolutions and more features.")]
            ELSE
                common @@
                [plan |->
                    [name |-> Field(UserPlanConfig(plan), "name"),
                     price |-> Field(UserPlanConfig(plan), "price"),
                     max_resolution |-> MaxAllowed(r, plan),
                     value_message |->
                        IF plan = Str(basic)
                        THEN Text("Using free tier. Upgrade to Pro for 768x768 resolution.")
                        ELSE IF plan = Str(pro)
                        THEN Text("Best value plan! Thanks for subscribing.")
                        ELSE Text("Thank you for your ${userPlanConfig.name} subscription!")],
                 competitive_note |->
                    IF plan = Str(pro)
                    THEN Text("You chose the best value SDXL API on RapidAPI!")
                    ELSE Null]]

\* Mutant of ErrorCode: the 429 branch is lost
ErrorCodeNoRateLimit(r, err) ==
    IF err.kind = "response" THEN
        IF err.status = 401 THEN "invalid_api_token"
        ELSE IF r # "v2.0.0" /\ err.status = 402 THEN "payment_required"
        ELSE IF r = "v2.0.0" /\ err.status = 503 THEN "model_loading"
        ELSE IF r = "v2.0.0" THEN "api_error"
        ELSE "generation_failed"
    ELSE IF err.kind = "request" THEN "network_error"
    ELSE "server_error"

\* What axios.post rejects with.  kind "response": the upstream answered with a
\* status outside 2xx (error.response); kind "request": the request was sent and
\* no response came, a network failure or the timeout (error.request); kind
\* "setup": neither.
\* errorResponse.error of the catch block
ErrorCode(r, err) ==
    IF err.kind = "response" THEN
        IF err.status = 401 THEN "invalid_api_token"
        ELSE IF r # "v2.0.0" /\ err.status = 402 THEN "payment_required"
        ELSE IF r = "v2.0.0" /\ err.status = 503 THEN "model_loading"
        ELSE IF err.status = 429 THEN "rate_limited"
        ELSE IF r = "v2.0.0" THEN "api_error"
        ELSE "generation_failed"
    ELSE IF err.kind = "request" THEN "network_error"
    ELSE "server_error"

\* Mutant of ErrorStatus: every upstream error status is answered 502
ErrorStatusBadGateway(r, err) ==
    IF err.kind = "response" THEN 502
    ELSE IF err.kind = "request" THEN 504
    ELSE 500

\* the status the catch block sets with res.status
ErrorStatus(r, err) ==
    IF err.kind = "response" THEN
        IF err.status = 401 THEN 401
        ELSE IF r # "v2.0.0" /\ err.status = 402 THEN 402
        ELSE IF r = "v2.0.0" /\ err.status = 503 THEN 503
        ELSE IF err.status = 429 THEN 429
        ELSE 502
    ELSE IF err.kind = "request" THEN 504
    ELSE 500

\* parsedError.error || parsedError.message || 'Hugging Face API error', and the
\* same default when JSON.parse throws; data is what JSON.parse makes of the
\* upstream body (Undefined: it throws)
ExtractedMessage(data) ==
    IF data.t # "object" THEN Text("Hugging Face API error")
    ELSE IF Truthy(Field(data, "error")) THEN Field(data, "error")
    ELSE IF Truthy(Field(data, "message")) THEN Field(data, "message")
    ELSE Text("Hugging Face API error")

\* errorResponse.message of the catch block
ErrorMessage(r, err) ==
    IF err.kind = "response" THEN
        IF r = "v2.0.0" THEN
            IF err.status = 401 THEN Text("Hugging Face token is invalid")
            ELSE IF err.status = 503
            THEN Text("Model is still loading, try again in 30 seconds")
            ELSE IF err.status = 429 THEN Text("Too many requests to Hugging Face")
            ELSE Text("Hugging Face API error")
        ELSE
            IF err.status = 401 THEN Text("Invalid Hugging Face API token")
            ELSE IF err.status = 402 THEN
                IF r = "v2.3.0"
                THEN Text("Hugging Face endpoint requires payment. Please contact support.")
                ELSE Text("Hugging Face endpoint requires payment.")
            ELSE IF err.status = 429
            THEN Text("Rate limit reached. Please try again later.")
            ELSE ExtractedMessage(err.data)
    ELSE IF err.kind = "request" THEN
        IF r = "v2.0.0" THEN Text("Cannot connect to Hugging Face")
        ELSE Text("Cannot connect to Hugging Face service")
    ELSE Text("Internal server error")

\* errorResponse as the catch block sends it
CatchBody(r, err, plan) ==
    LET core == [success |-> FALSE, error |-> ErrorCode(r, err),
                 message |-> ErrorMessage(r, err)]
    IN  IF r = "v2.0.0" THEN core
        ELSE IF r = "v2.5.0"
        THEN core @@ [plan |-> Field(UserPlanConfig(plan), "name")]
        ELSE IF err.kind = "response" /\ err.data.t = "object"
        THEN core @@ [plan |-> plan, details |-> err.data]
        ELSE core @@ [plan |-> plan]

(***************************************************************************)
(* The requests and the upstream outcomes the model draws from             *)
(***************************************************************************)
RECURSIVE Rep(_, _)
\* the text c repeated n times
Rep(c, n) ==
    IF n = 0 THEN ""
    ELSE IF n % 2 = 0 THEN LET half == Rep(c, n \div 2) IN half \o half
    ELSE c \o Rep(c, n - 1)

PromptSamples ==
    {Undefined, Null, Whole(42), Text(""), Text("a red cat"),
     Text(Rep("a", MaxPromptLength)), Text(Rep("a", MaxPromptLength) \o "a")}

DimensionSamples ==
    {Undefined, Null, Whole(63), Whole(64), Whole(512), Num(5125), Whole(768),
     Whole(1024), Whole(2000),
     Str(<<"7", "6", "8">>), Str(<<"a", "b", "c">>), Str(<<"1", "e", "3">>)}

PlanHeaderSamples ==
    {Undefined, Str(basic), Str(pro), Str(<<"P", "R", "O">>), Str(ultra), Str(mega),
     Str(<<"g", "o", "l", "d">>),
     Str(<<"c", "o", "n", "s", "t", "r", "u", "c", "t", "o", "r">>)}

SubscriptionHeaderSamples == {Undefined, Str(<<"a", "c", "t", "i", "v", "e">>)}

Requests ==
    [headers : [plan : PlanHeaderSamples, subscription : SubscriptionHeaderSamples],
     body : [prompt : PromptSamples, width : DimensionSamples,
             height : DimensionSamples, model : {Undefined}]]

UpstreamErrorStatuses == {401, 402, 404, 429, 500, 503}

UpstreamErrorData ==
    {Undefined,
     [t |-> "object", tag |-> "json", error |-> Text("Model too busy")],
     [t |-> "object", tag |-> "json", message |-> Text("Not Found")],
     [t |-> "object", tag |-> "json",
      error |-> [t |-> "object", tag |-> "json", trace |-> Text("at worker.py:41")]],
     [t |-> "object", tag |-> "json"]}

\* the image bytes the upstream answers with
ImageSamples ==
    {<<>>, <<255>>, <<137, 80>>, <<137, 80, 78>>, <<0, 0, 0, 255>>,
     <<137, 80, 78, 71, 13, 10, 26>>}

Rejections ==
    [kind : {"response"}, status : UpstreamErrorStatuses, data : UpstreamErrorData]
        \cup {[kind |-> "request"], [kind |-> "fault"]}

(***************************************************************************)
(* The state machine                                                       *)
(***************************************************************************)
Unsent == [status |-> 0, body |-> Undefined]

Init ==
    /\ rev \in Revisions
    /\ pc = "idle"
    /\ req = Undefined
    /\ userPlan = Undefined
    /\ isPaidUser = Undefined
    /\ outbound = 0
    /\ payload = Undefined
    /\ upstream = [kind |-> "none"]
    /\ response = Unsent
    /\ sent = 0
    /\ adminKey = Undefined
    /\ hits = <<>>
    /\ handled = 0
    /\ usage = <<>>
    /\ calls = <<>>

\* a POST /api/generate arrives; v2.0.0 registers no middleware before the handler
Receive ==
    /\ pc = "idle"
    /\ req' \in Requests
    /\ pc' = IF rev = "v2.0.0" THEN "handler" ELSE "detect"
    /\ UNCHANGED <<rev, userPlan, isPaidUser, outbound, payload, upstream,
                   response, sent>>
    /\ UNCHANGED server

\* the detectUserPlan middleware
DetectUserPlan ==
    /\ pc = "detect"
    /\ LET d == detectUserPlan(rev, req.headers)
       IN  /\ userPlan' = d.userPlan
           /\ isPaidUser' = d.isPaidUser
    /\ pc' = "handler"
    /\ UNCHANGED <<rev, req, outbound, payload, upstream, response, sent>>
    /\ UNCHANGED server

\* Mutant of Handle: the 400 is sent without `return`, the handler goes on to
\* the outbound POST
HandleWithoutReturn(verdict) ==
    /\ outbound' = outbound + 1
    /\ payload' = Payload(rev, req.body)
    /\ pc' = "awaiting"
    /\ IF verdict = "ok"
       THEN UNCHANGED <<response, sent>>
       ELSE /\ response' = [status |-> 400,
                            body |-> RejectBody(rev, verdict, req.body, userPlan)]
            /\ sent' = sent + 1
    /\ UNCHANGED <<rev, req, userPlan, isPaidUser, upstream>>
    /\ UNCHANGED server

\* the handler up to its await: a failed check answers 400 and returns,
\* otherwise the outbound POST is issued
Handle(verdict) ==
    /\ outbound' = outbound + OutboundCalls(verdict)
    /\ IF verdict = "ok"
       THEN /\ payload' = Payload(rev, req.body)
            /\ pc' = "awaiting"
            /\ UNCHANGED <<response, sent>>
       ELSE /\ response' = [status |-> 400,
                            body |-> RejectBody(rev, verdict, req.body, userPlan)]
            /\ sent' = sent + 1
            /\ pc' = "done"
            /\ UNCHANGED payload
    /\ UNCHANGED <<rev, req, userPlan, isPaidUser, upstream>>
    /\ UNCHANGED server

HandleGenerate ==
    /\ pc = "handler"
    /\ Handle(Verdict(rev, req.body, userPlan))

\* axios.post resolves: the success envelope
UpstreamResolves ==
    /\ pc = "awaiting"
    /\ upstream' \in [kind : {"resolved"}, status : {200}, bytes : ImageSamples]
    /\ response' = [status |-> 200,
                    body |-> SuccessBody(rev, req.body, userPlan, isPaidUser,
                                         upstream'.bytes)]
    /\ sent' = sent + 1
    /\ pc' = "done"
    /\ UNCHANGED <<rev, req, userPlan, isPaidUser, outbound, payload>>
    /\ UNCHANGED server

\* axios.post rejects: the catch block
UpstreamRejects ==
    /\ pc = "awaiting"
    /\ upstream' \in Rejections
    /\ response' = [status |-> ErrorStatus(rev, upstream'),
                    body |-> CatchBody(rev, upstream', userPlan)]
    /\ sent' = sent + 1
    /\ pc' = "done"
    /\ UNCHANGED <<rev, req, userPlan, isPaidUser, outbound, payload>>
    /\ UNCHANGED server

Next ==
    \/ Receive
    \/ DetectUserPlan
    \/ HandleGenerate
    \/ UpstreamResolves
    \/ UpstreamRejects

Spec == Init /\ [][Next]_vars

\* the steps of one call, told by the place of the call: the middleware hands
\* over to the handler, the handler answers or awaits the outbound POST, the
\* outbound POST settles
MiddlewareRuns == pc = "detect" /\ pc' = "handler"
HandlerRuns == pc = "handler" /\ pc' \in {"awaiting", "done"}
UpstreamSettles == pc = "awaiting" /\ pc' = "done"

\* Express runs the middleware and the handler of a received request, and the
\* outbound POST settles: the upstream answers or the timeout of axios fires
FairSpec ==
    /\ Spec
    /\ WF_pc(MiddlewareRuns)
    /\ WF_pc(HandlerRuns)
    /\ WF_pc(UpstreamSettles)

(***************************************************************************)
(* What the properties below read of a state                               *)
(***************************************************************************)
\* the call has left the validation: the outbound POST is in flight, or the
\* response is sent
Decided == pc \in {"awaiting", "done"}
Answered == pc = "done"

\* the error code of the response, "none" for a response without one
Code == IF "error" \in DOMAIN response.body THEN response.body.error ELSE "none"

\* a prompt that passes rules 1 and 2: a non-empty text of at most 1500 characters
ValidPrompt(p) == p.t = "text" /\ p.lit # "" /\ Len(p.lit) <= MaxPromptLength

\* a whole number within [lo, hi]
WholeWithin(x, lo, hi) ==
    x.t = "number" /\ ~x.nan /\ x.v % 10 = 0 /\ lo * 10 <= x.v /\ x.v <= hi * 10

\* the maximum resolution of a plan of the fixed set, as both plan tables give it
PlanMaximum(key) ==
    CASE key = basic -> 512
      [] key = pro -> 768
      [] key = ultra -> 1024
      [] key = mega -> 1024

\* the width and height the handler coerced from the wire
ParsedWidth == parseInt(Width(req.body))
ParsedHeight == parseInt(Height(req.body))

(***************************************************************************)
(* C1                                                                      *)
(***************************************************************************)
\* C1: an outbound call is issued only with a width and a height that are both
\* whole numbers in [64, 1024] and, where a plan is resolved, both at most the
\* maximum resolution of the resolved plan.
C1_OutboundWithinLimits ==
    outbound > 0 =>
        /\ WholeWithin(payload.width, MinDimension, MaxDimension)
        /\ WholeWithin(payload.height, MinDimension, MaxDimension)
        /\ rev \in PlanRevisions =>
            /\ userPlan.s \in PlanKeys
            /\ payload.width.v <= PlanMaximum(userPlan.s) * 10
            /\ payload.height.v <= PlanMaximum(userPlan.s) * 10

(***************************************************************************)
(* C2                                                                      *)
(***************************************************************************)
\* a coerced dimension that is a number outside [64, 1024]
Outside(x) == ~x.nan /\ (x.v < MinDimension * 10 \/ x.v > MaxDimension * 10)

\* C2: the checks run in the order prompt_required, prompt_too_long,
\* invalid_dimensions, plan_limit_exceeded: a request with a valid prompt whose
\* width or height lies outside [64, 1024] is answered invalid_dimensions, also
\* when it exceeds the maximum of the caller's plan.
C2_DimensionsBeforePlanLimit ==
    (/\ rev \in PlanRevisions
     /\ Decided
     /\ ValidPrompt(req.body.prompt)
     /\ (Outside(ParsedWidth) \/ Outside(ParsedHeight)))
        => (Answered /\ Code = "invalid_dimensions")

(***************************************************************************)
(* C3                                                                      *)
(***************************************************************************)
\* a width or height that is present and that the coercion makes no number of
FailsCoercion(x) == x.t # "undefined" /\ parseInt(x).nan

\* C3: a request with a valid prompt whose width or height is present but fails
\* numeric coercion is answered invalid_dimensions, and no outbound call occurs.
C3_UncoercibleDimensionsRejected ==
    (/\ Decided
     /\ ValidPrompt(req.body.prompt)
     /\ (FailsCoercion(req.body.width) \/ FailsCoercion(req.body.height)))
        => (Answered /\ Code = "invalid_dimensions" /\ outbound = 0)

(***************************************************************************)
(* C4                                                                      *)
(***************************************************************************)
\* a prompt that is missing or is not text
NoTextPrompt(p) == p.t \notin {"text", "string"}

\* C4: a request whose prompt is missing or is not text is answered
\* prompt_required with status 400, whatever its other fields and its plan
\* header, and no outbound call occurs.
C4_PromptRequired ==
    (Decided /\ NoTextPrompt(req.body.prompt))
        => (/\ Answered
            /\ Code = "prompt_required"
            /\ response.status = 400
            /\ outbound = 0)

\* a call without a text prompt, with dimensions above every plan and a plan
\* header, answered prompt_required
C4_Witness ==
    /\ Answered
    /\ rev = "v2.5.0"
    /\ req.body.prompt = Whole(42)
    /\ req.body.width = Whole(2000)
    /\ req.headers.plan = Str(mega)
    /\ Code = "prompt_required"

(***************************************************************************)
(* C5                                                                      *)
(***************************************************************************)
\* the middleware has run
Resolved == rev \in PlanRevisions /\ pc \in {"handler", "awaiting", "done"}

\* the plan hint names a plan of the fixed set, whatever its case
KnownHint(h) == h.t = "string" /\ toLowerCase(h.s) \in PlanKeys

\* C5: every plan hint resolves to a plan of {basic, pro, ultra, mega}: a hint
\* that matches a known plan case-insensitively to that plan, every absent or
\* unrecognized hint to basic, whatever the other headers are.
C5_PlanResolution ==
    Resolved =>
        /\ userPlan.s \in PlanKeys
        /\ KnownHint(req.headers.plan) => userPlan.s = toLowerCase(req.headers.plan.s)
        /\ ~KnownHint(req.headers.plan) => userPlan.s = basic

(***************************************************************************)
(* C6                                                                      *)
(***************************************************************************)
\* the tier an upgrade text names, "none" when it names no tier
SuggestedTier(text) ==
    CASE text = "Upgrade to Pro ($9) for 768x768" -> "Pro"
      [] text = "Using free tier. Upgrade to Pro for 768x768 resolution." -> "Pro"
      [] text = "Upgrade to Ultra ($29) for 1024x1024" -> "Ultra"
      [] OTHER -> "none"

\* the plan_limit_exceeded response carries the basic plan, its limit and the
\* requested size
CarriesBasicLimit ==
    /\ Answered
    /\ Code = "plan_limit_exceeded"
    /\ response.status = 400
    /\ response.body.current_plan \in {Text("Basic"), Str(basic)}
    /\ response.body.max_allowed = Whole(PlanMaximum(basic))
    /\ response.body.requested = Str(ToStr(ParsedWidth) \o <<"x">> \o ToStr(ParsedHeight))

\* the response names Pro in an upgrade suggestion
SuggestsPro ==
    /\ "upgrade_suggestion" \in DOMAIN response.body
    /\ SuggestedTier(response.body.upgrade_suggestion) = "Pro"

\* C6 as stated: on the basic plan, with a valid prompt, every request whose width
\* and height are within [64, 1024] and one of which exceeds 512 is answered
\* plan_limit_exceeded with the current plan, the limit, the requested size and
\* an upgrade suggestion that names Pro.
C6_AsStated ==
    (/\ rev \in PlanRevisions
     /\ Decided
     /\ userPlan = Str(basic)
     /\ ValidPrompt(req.body.prompt)
     /\ WholeWithin(ParsedWidth, MinDimension, MaxDimension)
     /\ WholeWithin(ParsedHeight, MinDimension, MaxDimension)
     /\ \/ NumGt(ParsedWidth, Whole(PlanMaximum(basic)))
        \/ NumGt(ParsedHeight, Whole(PlanMaximum(basic))))
        => (CarriesBasicLimit /\ SuggestsPro)

\* C6, amended: on the basic plan, with a valid prompt, every request whose
\* width and height are within [64, 1024] and one of which exceeds 512 is
\* answered plan_limit_exceeded with the current plan, the limit and the
\* requested size; v2.5.0 adds an upgrade suggestion that names Pro, v2.3.0 an
\* upgrade URL and no suggestion that names a tier.
C6_BasicPlanLimit ==
    (/\ rev \in PlanRevisions
     /\ Decided
     /\ userPlan = Str(basic)
     /\ ValidPrompt(req.body.prompt)
     /\ WholeWithin(ParsedWidth, MinDimension, MaxDimension)
     /\ WholeWithin(ParsedHeight, MinDimension, MaxDimension)
     /\ \/ ParsedWidth.v > PlanMaximum(basic) * 10
        \/ ParsedHeight.v > PlanMaximum(basic) * 10)
        => (/\ CarriesBasicLimit
            /\ rev = "v2.5.0" => SuggestsPro
            /\ rev = "v2.3.0" =>
                /\ "upgrade_url" \in DOMAIN response.body
                /\ "upgrade_suggestion" \notin DOMAIN response.body)

\* a basic caller of v2.5.0 asks for 768 wide and is told to upgrade to Pro
C6_Witness ==
    /\ Answered
    /\ rev = "v2.5.0"
    /\ userPlan = Str(basic)
    /\ req.body.width = Whole(768)
    /\ Code = "plan_limit_exceeded"
    /\ SuggestsPro

(***************************************************************************)
(* C7                                                                      *)
(***************************************************************************)
\* the tier one above a plan
NextTier(key) ==
    CASE key = basic -> "Pro"
      [] key = pro -> "Ultra"
      [] key = ultra -> "Mega"
      [] OTHER -> "none"

\* the tier the success envelope suggests, "none" when it suggests none
EnvelopeSuggestion ==
    IF Code = "none" /\ "data" \in DOMAIN response.body
    THEN SuggestedTier(response.body.data.plan.value_message.lit)
    ELSE "none"

\* C7: the upgrade suggestion of a response of v2.5.0 names the tier one above
\* the caller's plan, and no response to a caller on the top plan (mega), success
\* or plan_limit_exceeded, includes an upgrade suggestion.
C7_UpgradeOneTierAbove ==
    (rev = "v2.5.0" /\ Answered /\ userPlan.s \in PlanKeys) =>
        /\ "upgrade_suggestion" \in DOMAIN response.body =>
            /\ userPlan.s # mega
            /\ SuggestedTier(response.body.upgrade_suggestion) = NextTier(userPlan.s)
        /\ EnvelopeSuggestion # "none" =>
            /\ userPlan.s # mega
            /\ EnvelopeSuggestion = NextTier(userPlan.s)

(***************************************************************************)
(* C8                                                                      *)
(***************************************************************************)
ValidationCodes ==
    {"prompt_required", "prompt_too_long", "invalid_dimensions", "plan_limit_exceeded"}

\* the outbound calls of the call, by where the call is
OutboundCount ==
    /\ outbound <= 1
    /\ pc \in {"idle", "detect", "handler"} => outbound = 0
    /\ pc = "awaiting" => (outbound = 1 /\ sent = 0)
    /\ Answered =>
        IF Code \in ValidationCodes
        THEN outbound = 0 /\ upstream.kind = "none"
        ELSE outbound = 1
                /\ upstream.kind \in {"resolved", "response", "request", "fault"}

\* C8: a call that passes validation issues exactly one outbound POST and a call
\* that fails validation issues none; once the call is answered, after an
\* upstream failure or timeout as after anything else, no further outbound
\* request is made and the response stands.
C8_OneOutboundCall ==
    /\ []OutboundCount
    /\ [][Answered => (outbound' = outbound /\ response' = response /\ pc' = pc)]_vars

\* a call whose one outbound POST got no upstream response
C8_Witness ==
    /\ Answered
    /\ upstream.kind = "request"
    /\ outbound = 1
    /\ Code = "network_error"

(***************************************************************************)
(* C9                                                                      *)
(***************************************************************************)
\* C9: whenever the upstream answers 401, the gateway responds with
\* invalid_api_token and status 401, in every revision, for every plan and
\* every request body.
C9_InvalidApiToken ==
    (Answered /\ upstream.kind = "response" /\ upstream.status = 401)
        => (response.status = 401 /\ Code = "invalid_api_token")

\* a mega caller whose upstream call was answered 401
C9_Witness ==
    /\ Answered
    /\ upstream.kind = "response"
    /\ upstream.status = 401
    /\ userPlan = Str(mega)
    /\ response.status = 401
    /\ Code = "invalid_api_token"

(***************************************************************************)
(* C10                                                                     *)
(***************************************************************************)
UpstreamFailed == Answered /\ upstream.kind \in {"response", "request"}
UpstreamStatus == IF upstream.kind = "response" THEN upstream.status ELSE 0

Base64Index(c) == CHOOSE i \in 0..63 : Base64Chars[i + 1] = c

\* the bytes of one group of four base64 characters
DecodeGroup(a, b, c3, c4) ==
    IF c3 = "=" THEN <<a * 4 + b \div 16>>
    ELSE IF c4 = "="
    THEN <<a * 4 + b \div 16, (b % 16) * 16 + Base64Index(c3) \div 4>>
    ELSE <<a * 4 + b \div 16, (b % 16) * 16 + Base64Index(c3) \div 4,
           (Base64Index(c3) % 4) * 64 + Base64Index(c4)>>

RECURSIVE fromBase64(_)
\* the bytes a base64 text decodes to
fromBase64(chars) ==
    IF Len(chars) < 4 THEN <<>>
    ELSE DecodeGroup(Base64Index(chars[1]), Base64Index(chars[2]), chars[3], chars[4])
            \o fromBase64(Drop(chars, 4))

\* a wire value that stands for a whole number within [64, 1024]
WholeOnWire(x) == WholeWithin(ToNumber(x), MinDimension, MaxDimension)

\* a request the spec calls valid: a valid prompt, a whole width and height
ValidRequest ==
    /\ ValidPrompt(req.body.prompt)
    /\ WholeOnWire(Width(req.body))
    /\ WholeOnWire(Height(req.body))

\* the call was answered with the success envelope
Succeeded == Answered /\ upstream.kind = "resolved"

\* C11: for every valid request and every byte sequence X the upstream returns
\* with success, the image of the envelope is a data URL whose base64 part
\* decodes back to exactly X, its dimensions equal the requested width and
\* height, and its prompt is the prompt of the request unchanged.
C11_EnvelopeRoundTrip ==
    (Succeeded /\ ValidRequest) =>
        /\ response.status = 200
        /\ response.body.success
        /\ StartsWith(response.body.data.image.s, DataUrlPrefix)
        /\ fromBase64(Drop(response.body.data.image.s, Len(DataUrlPrefix)))
                = upstream.bytes
        /\ ToNumber(response.body.data.dimensions.width) = ToNumber(Width(req.body))
        /\ ToNumber(response.body.data.dimensions.height) = ToNumber(Height(req.body))
        /\ response.body.data.prompt = req.body.prompt

\* seven bytes returned for a 768 wide request of a pro caller of v2.5.0
C11_Witness ==
    /\ Succeeded
    /\ ValidRequest
    /\ rev = "v2.5.0"
    /\ upstream.bytes = <<137, 80, 78, 71, 13, 10, 26>>
    /\ req.body.width = Str(<<"7", "6", "8">>)
    /\ response.body.data.dimensions.width = Whole(768)
    /\ response.body.data.prompt = Text("a red cat")

(***************************************************************************)
(* C18                                                                     *)
(***************************************************************************)
\* C18: in every successful response the width and height of the envelope's
\* dimensions are exactly the width and height sent to the upstream in the
\* outbound payload of that call, for every accepted wire representation
\* (number, numeric string, fractional number).
C18_DimensionsAsSent ==
    Succeeded =>
        /\ response.body.data.dimensions.width = payload.width
        /\ response.body.data.dimensions.height = payload.height

(***************************************************************************)
(* C13                                                                     *)
(***************************************************************************)
\* the upstream answered with an error status
UpstreamErrored == Answered /\ upstream.kind = "response"

\* a value taken from the parsed upstream body: the body itself or one of its
\* properties
FromUpstream(v) ==
    /\ upstream.data.t = "object"
    /\ \/ v = upstream.data
       \/ \E k \in DOMAIN upstream.data \ {"t", "tag"} : v = upstream.data[k]

\* C13: for every upstream failure response, body and status, the error body
\* returned to the caller holds no raw upstream payload: the only content taken
\* from the upstream is one extracted message string.
C13_NoRawUpstreamPayload ==
    UpstreamErrored =>
        \A f \in DOMAIN response.body \ {"success", "error"} :
            FromUpstream(response.body[f]) =>
                (f = "message" /\ response.body[f].t \in {"text", "string"})

(***************************************************************************)
(* C17                                                                     *)
(***************************************************************************)
\* a call is answered with one response and no response is sent before the
\* handler decided
OneResponseSent ==
    /\ sent <= 1
    /\ Answered <=> sent = 1
    /\ sent = 1 => response.status # 0

\* C17: every call of POST /api/generate eventually sends exactly one HTTP
\* response, on every path (validation rejection, success, upstream error
\* status, no upstream response or timeout, local fault): none sends two, and,
\* as the upstream call returns or times out, none leaves the call unanswered.
C17_ExactlyOneResponse ==
    /\ []OneResponseSent
    /\ [][sent = 1 => (sent' = 1 /\ response' = response)]_vars
    /\ (pc # "idle") ~> (sent = 1)

\* a call answered server_error after a fault that is no upstream outcome
C17_Witness ==
    /\ sent = 1
    /\ upstream.kind = "fault"
    /\ response.status = 500
    /\ Code = "server_error"

(***************************************************************************)
(* GET /admin/health (v2.3.0, v2.5.0)                                      *)
(***************************************************************************)
\* the values of process.env.ADMIN_KEY: unset, empty, set
AdminKeySamples ==
    {Undefined, Str(<<>>), Str(<<"s", "3", "c", "r", "e", "t">>), Str(<<"k">>)}

\* the values of the admin-key header: absent, empty, each secret, near misses
AdminHeaderSamples ==
    {Undefined, Str(<<>>), Str(<<"s", "3", "c", "r", "e", "t">>), Str(<<"k">>),
     Str(<<"S", "3", "C", "R", "E", "T">>), Str(<<"s", "3", "c", "r", "e", "t", " ">>),
     Str(<<"u", "n", "d", "e", "f", "i", "n", "e", "d">>)}

\* { success: false, error: 'unauthorized' }
Unauthorized == [status |-> 403, body |-> [success |-> FALSE, error |-> "unauthorized"]]

\* the service snapshot (timestamp, memory and uptime left out)
Snapshot(r) ==
    [status |-> 200,
     body |-> IF r = "v2.3.0"
              THEN [success |-> TRUE, status |-> "healthy",
                    plan |-> "RapidAPI integrated - no local tracking"]
              ELSE [success |-> TRUE, status |-> "healthy", version |-> "2.5.0",
                    current_pricing |-> PLAN_CONFIG]]

\* the condition of the 403 of the route
AdminRefused(r, key, provided) ==
    IF r = "v2.3.0"
    THEN Truthy(key) /\ provided # key
    ELSE ~Truthy(key) \/ ~Truthy(provided) \/ provided # key

\* the handler of GET /admin/health
adminHealth(r, key, provided) ==
    IF AdminRefused(r, key, provided) THEN Unauthorized ELSE Snapshot(r)

AdminInit ==
    /\ rev \in PlanRevisions
    /\ adminKey \in AdminKeySamples
    /\ pc = "idle"
    /\ req = Undefined
    /\ userPlan = Undefined
    /\ isPaidUser = Undefined
    /\ outbound = 0
    /\ payload = Undefined
    /\ upstream = [kind |-> "none"]
    /\ response = Unsent
    /\ sent = 0
    /\ hits = <<>>
    /\ handled = 0
    /\ usage = <<>>
    /\ calls = <<>>

\* a GET /admin/health arrives
AdminReceive ==
    /\ pc = "idle"
    /\ req' \in [headers : [adminKey : AdminHeaderSamples]]
    /\ pc' = "admin"
    /\ UNCHANGED <<rev, userPlan, isPaidUser, outbound, payload, upstream,
                   response, sent, adminKey, hits, handled, usage, calls>>

\* the handler answers
AdminHealth ==
    /\ pc = "admin"
    /\ response' = adminHealth(rev, adminKey, req.headers.adminKey)
    /\ sent' = sent + 1
    /\ handled' = handled + 1
    /\ pc' = "done"
    /\ UNCHANGED <<rev, req, userPlan, isPaidUser, outbound, payload, upstream,
                   adminKey, hits, usage, calls>>

AdminNext ==
    \/ AdminReceive
    \/ AdminHealth

AdminSpec == AdminInit /\ [][AdminNext]_vars

(***************************************************************************)
(* C12                                                                     *)
(***************************************************************************)
\* the response is the service snapshot
GotSnapshot == pc = "done" /\ response.status = 200 /\ response.body.success

\* an admin secret is configured
SecretConfigured == adminKey.t = "string" /\ Len(adminKey.s) > 0

\* C12: GET /admin/health returns the snapshot only to a request whose admin-key
\* header equals the configured admin secret; a missing or mismatching header
\* is answered 403 unauthorized, and when no admin secret is configured no
\* request obtains the snapshot.
C12_AdminSecret ==
    pc = "done" =>
        /\ GotSnapshot => (SecretConfigured /\ req.headers.adminKey = adminKey)
        /\ (SecretConfigured /\ req.headers.adminKey # adminKey) =>
                (response.status = 403 /\ Code = "unauthorized")
        /\ ~SecretConfigured => ~GotSnapshot

(***************************************************************************)
(* C14                                                                     *)
(***************************************************************************)
\* the error kinds of the spec
FixedErrorCodes ==
    {"prompt_required", "prompt_too_long", "invalid_dimensions",
     "plan_limit_exceeded", "daily_limit_exceeded", "invalid_api_token",
     "payment_required", "rate_limited", "model_loading", "model_not_found",
     "network_error", "server_error", "endpoint_not_found", "unauthorized"}

\* the call was answered with an error
AnsweredError == Answered /\ response.status >= 400

\* C14: every error response carries a machine-readable code of the fixed set
\* of error kinds together with a human-readable message, and an unexpected
\* local fault is reported as server_error.
C14_FixedErrorCodes ==
    AnsweredError =>
        /\ Code \in FixedErrorCodes
        /\ "message" \in DOMAIN response.body
        /\ Truthy(response.body.message)
        /\ upstream.kind = "fault" => Code = "server_error"

(***************************************************************************)
(* The rate limiter: app.use('/api/', limiter)                             *)
(***************************************************************************)
\* max of the limiter: v2.3.0 and v2.5.0, v2.0.0 in production, v2.0.0 otherwise
LimiterMax == 60
ProductionMax == 15
DevelopmentMax == 30

\* the values max can take in a revision (v2.0.0 reads NODE_ENV)
LimiterMaxima(r) ==
    IF r = "v2.0.0" THEN {ProductionMax, DevelopmentMax} ELSE {LimiterMax}

\* how many calls over the budget the runs follow for one address in one window
MaxOverBudget == 1

\* req.ip, the key of the limiter
Addresses == {"10.0.0.1", "10.0.0.2"}

\* the paths of the calls: routes under /api/, routes outside it, no route
Paths == {"/api/generate", "/api/models", "/", "/admin/health"}

\* the mount path '/api/' matches
UnderApi(path) == path \in {"/api/generate", "/api/models"}

\* Mutant of OverLimit: the call that uses up the budget plus one is let through
OverLimitLate(count, max) == count > max + 1

\* the hit count of a key is over the budget
OverLimit(count, max) == count > max

\* the store after a hit of address a
Hit(store, a) == [store EXCEPT !.counts[a] = @ + 1]

\* the 429 of the limiter: the message option
RateLimited(r) ==
    [status |-> 429,
     body |-> IF r = "v2.0.0"
              THEN [error |-> "Rate limit exceeded. Try again in a minute."]
              ELSE [success |-> FALSE, error |-> "rate_limit_exceeded",
                    message |-> Text("Too many requests. Please slow down.")]]

LimiterInit ==
    /\ rev \in Revisions
    /\ hits \in [max : LimiterMaxima(rev), counts : {[a \in Addresses |-> 0]}]
    /\ pc = "idle"
    /\ req = Undefined
    /\ userPlan = Undefined
    /\ isPaidUser = Undefined
    /\ outbound = 0
    /\ payload = Undefined
    /\ upstream = [kind |-> "none"]
    /\ response = Unsent
    /\ sent = 0
    /\ adminKey = Undefined
    /\ handled = 0
    /\ usage = <<>>
    /\ calls = <<>>

\* a call arrives from an address
LimiterReceive ==
    /\ pc = "idle"
    /\ req' \in [ip : Addresses, path : Paths]
    /\ hits.counts[req'.ip] < hits.max + MaxOverBudget
    /\ pc' = "limiter"
    /\ response' = Unsent
    /\ sent' = 0
    /\ handled' = 0
    /\ UNCHANGED <<rev, userPlan, isPaidUser, outbound, payload, upstream,
                   adminKey, hits, usage, calls>>

\* the limiter counts the hit and answers 429 or calls next(); a path outside
\* the mount path does not reach it
LimiterRuns ==
    /\ pc = "limiter"
    /\ IF UnderApi(req.path)
       THEN /\ hits' = Hit(hits, req.ip)
            /\ IF OverLimit(hits'.counts[req.ip], hits.max)
               THEN /\ response' = RateLimited(rev)
                    /\ sent' = sent + 1
                    /\ pc' = "limited"
                    /\ UNCHANGED handled
               ELSE /\ handled' = handled + 1
                    /\ pc' = "routed"
                    /\ UNCHANGED <<response, sent>>
       ELSE /\ handled' = handled + 1
            /\ pc' = "routed"
            /\ UNCHANGED <<hits, response, sent>>
    /\ UNCHANGED <<rev, req, userPlan, isPaidUser, outbound, payload, upstream,
                   adminKey, usage, calls>>

\* the call is over, the server awaits the next
CallEnds ==
    /\ pc \in {"routed", "limited"}
    /\ pc' = "idle"
    /\ UNCHANGED <<rev, req, userPlan, isPaidUser, outbound, payload, upstream,
                   response, sent, adminKey, hits, handled, usage, calls>>

\* windowMs is over: the store forgets the hits of one key or of all keys
WindowResets ==
    /\ pc = "idle"
    /\ \E S \in SUBSET Addresses \ {{}} :
            /\ \E a \in S : hits.counts[a] > 0
            /\ hits' = [hits EXCEPT !.counts =
                            [a \in Addresses |-> IF a \in S THEN 0 ELSE @[a]]]
    /\ UNCHANGED <<rev, pc, req, userPlan, isPaidUser, outbound, payload, upstream,
                   response, sent, adminKey, handled, usage, calls>>

LimiterNext ==
    \/ LimiterReceive
    \/ LimiterRuns
    \/ CallEnds
    \/ WindowResets

LimiterSpec == LimiterInit /\ [][LimiterNext]_vars

(***************************************************************************)
(* C15                                                                     *)
(***************************************************************************)
\* the limiter decides the call
LimiterDecides == pc = "limiter" /\ pc' # "limiter"

\* the address of the call has used its budget in the window
BudgetUsed == hits.counts[req.ip] >= hits.max

\* a call the limiter rejected: a 429, no handler ran, no outbound call
RejectedUnhandled ==
    pc = "limited" =>
        /\ response.status = 429
        /\ sent = 1
        /\ handled = 0
        /\ outbound = 0

\* the decision leaves the hits of the other addresses alone
OthersUntouched ==
    \A a \in Addresses \ {req.ip} : hits'.counts[a] = hits.counts[a]

\* C15 as stated: the limiter is in front of all calls: on every endpoint a call
\* from an address that has used the budget of the window is rejected before
\* its handler runs, calls of other addresses are unaffected, and the address
\* is accepted again after the window resets.
C15_AsStated ==
    /\ []RejectedUnhandled
    /\ [][LimiterDecides =>
            /\ pc' = IF BudgetUsed THEN "limited" ELSE "routed"
            /\ OthersUntouched]_vars

\* C15, amended: the limiter is in front of the calls under /api/: there a call
\* from an address that has used the budget of the window is rejected before
\* its handler runs, with no outbound call, calls of other addresses are
\* unaffected, and the address is accepted again after the window resets;
\* calls outside /api/ (GET /, GET /admin/health) are never limited nor counted.
C15_LimiterInFrontOfApi ==
    /\ []RejectedUnhandled
    /\ [][LimiterDecides =>
            /\ pc' = IF UnderApi(req.path) /\ BudgetUsed THEN "limited" ELSE "routed"
            /\ OthersUntouched
            /\ ~UnderApi(req.path) => hits' = hits]_vars

\* an address over its budget is rejected on /api/generate while the other
\* address has hits left
C15_Witness ==
    /\ pc = "limited"
    /\ rev = "v2.5.0"
    /\ req.path = "/api/generate"
    /\ hits.counts[req.ip] = LimiterMax + 1
    /\ \E a \in Addresses \ {req.ip} : hits.counts[a] \in 1..(LimiterMax - 1)
    /\ response.status = 429

(***************************************************************************)
(* The usage counter: a count per (day, caller), incremented before the    *)
(* generation is attempted and compared with the daily ceiling of the plan *)
(***************************************************************************)
\* the generate calls in flight at once
MaxCalls == 3
\* the largest daily ceiling of a plan
MaxCeiling == 2
Callers == {"caller-a", "caller-b"}
Days == {"2024-01-01", "2024-01-02"}
\* the key of the in-memory table
UsageKeys == Days \X Callers

DailyLimitExceeded == "daily_limit_exceeded"

\* the count is compared before it is incremented
incrementAndCheckPostfix(counts, key, ceiling) ==
    [counts |-> [counts EXCEPT ![key] = @ + 1],
     allowed |-> ~(counts[key] > ceiling)]

\* increment the count of the key, then compare it with the ceiling, in one step
incrementAndCheck(counts, key, ceiling) ==
    LET incremented == [counts EXCEPT ![key] = @ + 1]
    IN  [counts |-> incremented,
         allowed |-> ~(incremented[key] > ceiling)]

NoCall == [at |-> "none"]

UsageInit ==
    /\ rev = "v2.5.0"
    /\ usage \in [ceiling : 1..MaxCeiling, counts : {[k \in UsageKeys |-> 0]}]
    /\ calls = [i \in 1..MaxCalls |-> NoCall]
    /\ pc = "idle"
    /\ req = Undefined
    /\ userPlan = Undefined
    /\ isPaidUser = Undefined
    /\ outbound = 0
    /\ payload = Undefined
    /\ upstream = [kind |-> "none"]
    /\ response = Unsent
    /\ sent = 0
    /\ adminKey = Undefined
    /\ hits = <<>>
    /\ handled = 0

UsageUnchanged ==
    UNCHANGED <<rev, pc, req, userPlan, isPaidUser, outbound, payload, upstream,
                response, sent, adminKey, hits, handled>>

\* a generate call of a caller arrives on a day
UsageReceive(i) ==
    /\ calls[i] = NoCall
    /\ \E day \in Days, caller \in Callers :
        calls' = [calls EXCEPT ![i] =
            [at |-> "handler", key |-> <<day, caller>>, outbound |-> 0,
             error |-> Undefined]]
    /\ UNCHANGED usage
    /\ UsageUnchanged

\* the handler of a call runs up to its first await: the count is incremented
\* and checked, and the call is either answered or sent upstream
UsageHandle(i) ==
    /\ calls[i].at = "handler"
    /\ LET checked == incrementAndCheck(usage.counts, calls[i].key, usage.ceiling)
       IN  /\ usage' = [usage EXCEPT !.counts = checked.counts]
           /\ calls' = [calls EXCEPT ![i] =
                IF checked.allowed
                THEN [@ EXCEPT !.at = "awaiting", !.outbound = 1]
                ELSE [@ EXCEPT !.at = "done", !.error = Str(DailyLimitExceeded)]]
    /\ UsageUnchanged

\* the upstream settles the outbound call of a call
UsageUpstreamSettles(i) ==
    /\ calls[i].at = "awaiting"
    /\ calls' = [calls EXCEPT ![i].at = "done"]
    /\ UNCHANGED usage
    /\ UsageUnchanged

UsageNext ==
    \E i \in 1..MaxCalls :
        \/ UsageReceive(i)
        \/ UsageHandle(i)
        \/ UsageUpstreamSettles(i)

UsageSpec == UsageInit /\ [][UsageNext]_vars

(***************************************************************************)
(* C16                                                                     *)
(***************************************************************************)
\* the calls of a key whose handler has run
Counted(key) ==
    {i \in 1..MaxCalls : calls[i].at \in {"awaiting", "done"} /\ calls[i].key = key}

\* the calls of a key that reached the upstream call
ReachedUpstream(key) == {i \in Counted(key) : calls[i].outbound = 1}

\* the calls of a key answered daily_limit_exceeded with no upstream call
Refused(key) ==
    {i \in Counted(key) :
        calls[i].outbound = 0 /\ calls[i].error = Str(DailyLimitExceeded)}

\* C16: of two concurrent generate calls of one caller on one day, with a daily
\* ceiling of 1 and the count starting at 0, exactly one reaches the upstream
\* call and the other is answered daily_limit_exceeded with no upstream call,
\* in every interleaving; the calls of other callers and days do not count.
C16_OneReachesUpstream ==
    \A key \in UsageKeys :
        (usage.ceiling = 1 /\ Cardinality(Counted(key)) = 2) =>
            /\ Cardinality(ReachedUpstream(key)) = 1
            /\ Cardinality(Refused(key)) = 1
            /\ ReachedUpstream(key) \cap Refused(key) = {}

\* two calls of one caller on one day were both in their handler at once, the
\* ceiling is 1, and both handlers have run
C16_Witness ==
    /\ usage.ceiling = 1
    /\ \E key \in UsageKeys :
        /\ Cardinality(Counted(key)) = 2
        /\ usage.counts[key] = 2
        /\ \E i \in ReachedUpstream(key) : calls[i].at = "awaiting"
        /\ \E i \in Refused(key) : calls[i].at = "done"

====
